---- MODULE Spec2Model ----
(***************************************************************************)
(* Model of cw.py (crossword-tools): load_words, anagram, multianagram and *)
(* the recursive search _backtrack.  Words and letter strings are          *)
(* sequences of one-character strings; a collections.Counter is a bag.     *)
(* The recursion of _backtrack is an explicit stack of frames, one frame   *)
(* per active call, holding the call's arguments and its loop variable.    *)
(***************************************************************************)
EXTENDS Bags, FiniteSets, Integers, Sequences, TLC

\* ------------------------------------------------------------------ bounds
MaxLetters == 3     \* longest letters argument (spaces included)
MaxSlots == 2       \* longest lengths argument
MaxLines == 3       \* most lines in the dictionary file

\* ------------------------------------------------------------------ inputs
\* Characters a caller may type in the letters argument.
Chars == {"a", "B", " "}

\* Values an entry of the lengths argument may take.
LengthValues == {1, 2}

\* Lines the dictionary file may hold (before strip/lower/isalpha).
Lines ==
    { <<"a">>, <<"B", " ">>, <<"a", "b">>, <<"b", "a">>, <<"a", " ", "b">> }

SeqsUpTo(S, n) == UNION { [1..k -> S] : k \in 0..n }

\* ------------------------------------------------------- string primitives
\* str.lower on one character
LowerChar(c) == IF c = "A" THEN "a" ELSE IF c = "B" THEN "b" ELSE c

\* str.lower
Lower(s) == [i \in 1..Len(s) |-> LowerChar(s[i])]

\* str.replace(" ", "")
RemoveSpaces(s) == SelectSeq(s, LAMBDA c : c # " ")

\* str.strip: drop leading and trailing whitespace
RECURSIVE Strip(_)
Strip(s) ==
    IF s = <<>> THEN s
    ELSE IF Head(s) = " " THEN Strip(Tail(s))
    ELSE IF s[Len(s)] = " " THEN Strip(SubSeq(s, 1, Len(s) - 1))
    ELSE s

\* str.isalpha: non-empty and every character a letter
IsAlpha(s) == Len(s) > 0 /\ \A i \in 1..Len(s) : s[i] \in {"a", "b", "A", "B"}

\* the elements of a sequence
Range(s) == { s[i] : i \in 1..Len(s) }

\* collections.Counter(iterable): the bag of the elements of a sequence
RECURSIVE Counter(_)
Counter(s) == IF s = <<>> THEN EmptyBag ELSE SetToBag({Head(s)}) (+) Counter(Tail(s))

\* sum(list of int)
RECURSIVE Sum(_)
Sum(s) == IF s = <<>> THEN 0 ELSE Head(s) + Sum(Tail(s))

\* sorted(list of int), ascending
RECURSIVE Insert(_, _)
Insert(x, s) ==
    IF s = <<>> THEN <<x>>
    ELSE IF x < Head(s) THEN <<x>> \o s
    ELSE <<Head(s)>> \o Insert(x, Tail(s))

RECURSIVE Sorted(_)
Sorted(s) == IF s = <<>> THEN <<>> ELSE Insert(Head(s), Sorted(Tail(s)))

\* ------------------------------------------------------------- load_words
RECURSIVE LoadFrom(_, _)
LoadFrom(lines, words) ==
    IF lines = <<>> THEN words
    ELSE LET word == Lower(Strip(Head(lines)))
         IN  IF IsAlpha(word) /\ word \notin Range(words)
             THEN LoadFrom(Tail(lines), Append(words, word))
             ELSE LoadFrom(Tail(lines), words)

load_words(dict_file) == LoadFrom(dict_file, <<>>)

\* ----------------------------------------------------------------- anagram
anagram(dict_file, letters) ==
    LET folded == Lower(RemoveSpaces(letters))
        counts == Counter(folded)
        length == Len(folded)
    IN  SelectSeq(load_words(dict_file),
                  LAMBDA word : Len(word) = length /\ Counter(word) = counts)

\* ------------------------------------------------------------ multianagram
\* Variant: the spaces are not removed before the letters are counted.
NormalizeKeepSpaces(letters) == Lower(letters)

\* Variant: the letters are not case folded.
NormalizeNoLower(letters) == RemoveSpaces(letters)

\* line 135: letters.replace(" ", "").lower()
Normalize(letters) == Lower(RemoveSpaces(letters))

\* Variant: the containment test always succeeds.
FitsAlways(counter, pool_) == TRUE

\* Counter <= Counter (lines 79 and 153): every count of counter is within pool
Fits(counter, pool_) == counter \sqsubseteq pool_

\* Variant: the chosen word is not taken out of the pool.
SubtractNothing(remaining, counter) == remaining

\* Counter - Counter (line 83): pointwise difference, keeping positive counts only
Subtract(remaining, counter) == remaining (-) counter

\* Variant: the next slot always starts at index 0.
NextMinIdxZero(next_same_length, idx) == 0

\* Variant: the next slot of equal length may take the same index again.
NextMinIdxSame(next_same_length, idx) == IF next_same_length THEN idx ELSE 0

\* Variant: the cursor is not reset when the length changes.
NextMinIdxAlways(next_same_length, idx) == idx + 1

\* line 85: the dedup cursor handed to the next slot
NextMinIdx(next_same_length, idx) == IF next_same_length THEN idx + 1 ELSE 0

\* line 77: range(min_idx, len(...)) starts at min_idx and steps by one
LoopStart(min_idx) == min_idx

LoopAdvance(idx) == idx + 1

\* lines 147-154: the candidate table, one list of (Counter, word) per needed length,
\* in the order of load_words
BuildTable(words, pool_, needed_lengths) ==
    [length \in needed_lengths |->
        LET kept == SelectSeq(words,
                        LAMBDA word : Len(word) = length /\ Fits(Counter(word), pool_))
        IN  [i \in 1..Len(kept) |-> <<Counter(kept[i]), kept[i]>>]]

\* line 75
NextSameLength(slot_idx, lens) ==
    slot_idx + 1 < Len(lens) /\ lens[slot_idx + 2] = lens[slot_idx + 1]

\* One activation of _backtrack: its arguments and the loop variable idx.
Frame(slot_idx, remaining, min_idx) ==
    [slot_idx |-> slot_idx, remaining |-> remaining, min_idx |-> min_idx,
     idx |-> LoopStart(min_idx)]

\* ------------------------------------------------------------------- state
VARIABLES
    dict_file,        \* the lines of DICT
    letters,          \* argument of anagram / multianagram
    lengths,          \* argument of multianagram
    pc,               \* "start", "error", "search", "done", "anagram"
    loads,            \* number of calls of load_words so far
    table_built,      \* words_by_length has been built
    pool,             \* Counter(letters)
    sorted_lengths,   \* sorted(lengths)
    words_by_length,  \* the candidate table
    chosen,           \* the list chosen, shared by all frames
    results,          \* the list results, shared by all frames
    stack,            \* the active calls of _backtrack, innermost last
    words_out         \* the list returned by anagram

vars == <<dict_file, letters, lengths, pc, loads, table_built, pool, sorted_lengths,
          words_by_length, chosen, results, stack, words_out>>

inputs == <<dict_file, letters, lengths>>
table == <<table_built, pool, sorted_lengths, words_by_length>>

Init ==
    /\ dict_file \in SeqsUpTo(Lines, MaxLines)
    /\ letters \in SeqsUpTo(Chars, MaxLetters)
    /\ lengths \in SeqsUpTo(LengthValues, MaxSlots)
    /\ pc = "start"
    /\ loads = 0
    /\ table_built = FALSE
    /\ pool = EmptyBag
    /\ sorted_lengths = <<>>
    /\ words_by_length = <<>>
    /\ chosen = <<>>
    /\ results = <<>>
    /\ stack = <<>>
    /\ words_out = <<>>

\* anagram(letters), lines 55-58
CallAnagram ==
    /\ pc = "start"
    /\ words_out' = anagram(dict_file, letters)
    /\ loads' = loads + 1
    /\ pc' = "anagram"
    /\ UNCHANGED <<inputs, table, chosen, results, stack>>

\* multianagram, lines 135-140: the length check fails
RaiseValueError ==
    /\ pc = "start"
    /\ Sum(lengths) # Len(Normalize(letters))
    /\ pc' = "error"
    /\ UNCHANGED <<inputs, loads, table, chosen, results, stack, words_out>>

\* multianagram, lines 135-157: the length check passes, the table is built and
\* _backtrack(0, pool, [], 0, ...) is called
EnterSearch ==
    /\ pc = "start"
    /\ Sum(lengths) = Len(Normalize(letters))
    /\ LET pool_ == Counter(Normalize(letters))
       IN  /\ pool' = pool_
           /\ sorted_lengths' = Sorted(lengths)
           /\ words_by_length' = BuildTable(load_words(dict_file), pool_, Range(lengths))
           /\ stack' = <<Frame(0, pool_, 0)>>
    /\ loads' = loads + 1
    /\ table_built' = TRUE
    /\ chosen' = <<>>
    /\ results' = <<>>
    /\ pc' = "search"
    /\ UNCHANGED <<inputs, words_out>>

Top == stack[Len(stack)]

Candidates(frame) == words_by_length[sorted_lengths[frame.slot_idx + 1]]

\* The innermost call returns.  Its caller is either multianagram (line 158, the
\* result list is returned) or the loop body of the enclosing frame, which pops
\* chosen (line 90) and moves to the next idx.
ReturnFrom(chosen_) ==
    IF Len(stack) = 1
    THEN /\ stack' = <<>>
         /\ chosen' = chosen_
         /\ pc' = "done"
    ELSE LET parent == stack[Len(stack) - 1]
         IN  /\ stack' = Append(SubSeq(stack, 1, Len(stack) - 2),
                                [parent EXCEPT !.idx = LoopAdvance(parent.idx)])
             /\ chosen' = SubSeq(chosen_, 1, Len(chosen_) - 1)
             /\ pc' = pc

\* lines 70-72: every slot is filled, the tuple is recorded
Emit ==
    /\ pc = "search"
    /\ Top.slot_idx = Len(sorted_lengths)
    /\ results' = Append(results, chosen)
    /\ ReturnFrom(chosen)
    /\ UNCHANGED <<inputs, loads, table, words_out>>

\* lines 77-89: the candidate at idx fits the remaining pool: choose it and recurse
Choose ==
    /\ pc = "search"
    /\ Top.slot_idx < Len(sorted_lengths)
    /\ Top.idx < Len(Candidates(Top))
    /\ LET entry == Candidates(Top)[Top.idx + 1]
           candidate_counter == entry[1]
           candidate == entry[2]
       IN  /\ Fits(candidate_counter, Top.remaining)
           /\ chosen' = Append(chosen, candidate)
           /\ stack' = Append(stack,
                  Frame(Top.slot_idx + 1,
                        Subtract(Top.remaining, candidate_counter),
                        NextMinIdx(NextSameLength(Top.slot_idx, sorted_lengths), Top.idx)))
    /\ UNCHANGED <<inputs, pc, loads, table, results, words_out>>

\* Variant: a candidate that does not fit is retried instead of passed over.
SkipWithoutAdvance ==
    /\ pc = "search"
    /\ Top.slot_idx < Len(sorted_lengths)
    /\ Top.idx < Len(Candidates(Top))
    /\ ~Fits(Candidates(Top)[Top.idx + 1][1], Top.remaining)
    /\ UNCHANGED vars

\* lines 77-79: the candidate at idx does not fit: next idx
Skip ==
    /\ pc = "search"
    /\ Top.slot_idx < Len(sorted_lengths)
    /\ Top.idx < Len(Candidates(Top))
    /\ ~Fits(Candidates(Top)[Top.idx + 1][1], Top.remaining)
    /\ stack' = [stack EXCEPT ![Len(stack)].idx = LoopAdvance(Top.idx)]
    /\ UNCHANGED <<inputs, pc, loads, table, chosen, results, words_out>>

\* line 77: the range is exhausted, the call returns
LoopEnd ==
    /\ pc = "search"
    /\ Top.slot_idx < Len(sorted_lengths)
    /\ Top.idx >= Len(Candidates(Top))
    /\ ReturnFrom(chosen)
    /\ UNCHANGED <<inputs, loads, table, results, words_out>>

Search == Emit \/ Choose \/ Skip \/ LoopEnd

Next == CallAnagram \/ RaiseValueError \/ EnterSearch \/ Emit \/ Choose \/ Skip \/ LoopEnd

Spec == Init /\ [][Next]_vars

\* The interpreter runs a started call to its end.
FairSpec == Spec /\ WF_vars(Search)

\* ------------------------------------------- multianagram as a pure function
\* _backtrack, lines 70-90, as a function from its arguments to the extended results
RECURSIVE backtrack(_, _, _, _, _, _, _)
RECURSIVE backtrack_loop(_, _, _, _, _, _, _)
backtrack(slot_idx, remaining, chosen_, min_idx, lens, wbl, results_) ==
    IF slot_idx = Len(lens)
    THEN Append(results_, chosen_)
    ELSE backtrack_loop(LoopStart(min_idx), slot_idx, remaining, chosen_, lens, wbl, results_)

\* the for loop of lines 77-90 from idx on
backtrack_loop(idx, slot_idx, remaining, chosen_, lens, wbl, results_) ==
    LET list == wbl[lens[slot_idx + 1]]
    IN  IF idx >= Len(list)
        THEN results_
        ELSE LET candidate_counter == list[idx + 1][1]
                 candidate == list[idx + 1][2]
                 after ==
                     IF Fits(candidate_counter, remaining)
                     THEN backtrack(slot_idx + 1,
                                    Subtract(remaining, candidate_counter),
                                    Append(chosen_, candidate),
                                    NextMinIdx(NextSameLength(slot_idx, lens), idx),
                                    lens, wbl, results_)
                     ELSE results_
             IN  backtrack_loop(idx + 1, slot_idx, remaining, chosen_, lens, wbl, after)

\* multianagram, lines 142-158, for arguments that pass the length check, over the
\* word list words that load_words returned
multianagram(words, letters_, lengths_) ==
    LET pool_ == Counter(Normalize(letters_))
    IN  backtrack(0, pool_, <<>>, 0, Sorted(lengths_),
                  BuildTable(words, pool_, Range(lengths_)), <<>>)

\* ------------------------------------------------------ vocabulary of claims
\* number of characters of s other than spaces
LetterCount(s) == Cardinality({ i \in 1..Len(s) : s[i] # " " })

\* the multiset of the letters of s, case folded, spaces left out, counted directly
LetterBag(s) ==
    LET at == { i \in 1..Len(s) : s[i] # " " }
    IN  [c \in { LowerChar(s[i]) : i \in at } |->
            Cardinality({ i \in at : LowerChar(s[i]) = c })]

\* the multiset union of the letters of the words of a tuple
RECURSIVE LettersOf(_)
LettersOf(t) == IF t = <<>> THEN EmptyBag ELSE Counter(Head(t)) (+) LettersOf(Tail(t))

\* a tuple of words taken as an unordered collection
AsCollection(t) == Counter(t)

Collections(list) == { AsCollection(list[j]) : j \in 1..Len(list) }

\* the index of word in its candidate list (0-based, as in the code)
IndexOf(word) ==
    LET list == words_by_length[Len(word)]
    IN  (CHOOSE i \in 1..Len(list) : list[i][2] = word) - 1

\* every enumeration order of the words of a list
Reorderings(words) ==
    { [i \in 1..Len(words) |-> words[f[i]]] : f \in Permutations(1..Len(words)) }

\* one dictionary word per slot, of the slot's length, together using every letter once
Assignments ==
    { a \in [1..Len(lengths) -> Range(load_words(dict_file))] :
        /\ \A i \in 1..Len(lengths) : Len(a[i]) = lengths[i]
        /\ LettersOf(a) = LetterBag(letters) }

TimesReturned(a) ==
    Cardinality({ j \in 1..Len(results) : AsCollection(results[j]) = AsCollection(a) })

\* Lemma: the stepwise search and the function multianagram agree on the result.
ResultsMatchFunction ==
    pc = "done" => results = multianagram(load_words(dict_file), letters, lengths)

\* ------------------------------------------------------------------ claims
\* C1: the call raises ValueError exactly when sum(lengths) differs from the number
\* of letters left after spaces are removed, and then the dictionary has not been
\* read, no candidate table is built, _backtrack has no frame and nothing is returned.
C1_ValidationFirst ==
    /\ pc = "error" =>
          /\ Sum(lengths) # LetterCount(letters)
          /\ loads = 0 /\ ~table_built /\ stack = <<>> /\ results = <<>> /\ chosen = <<>>
    /\ pc \in {"search", "done"} => Sum(lengths) = LetterCount(letters)
    /\ (pc = "start" /\ Sum(lengths) # LetterCount(letters)) =>
          (ENABLED RaiseValueError /\ ~ENABLED EnterSearch)

C1_Witness ==
    pc = "error" /\ " " \in Range(letters) /\ lengths # <<>>

\* C2: every assignment of dictionary words to the slots that has the slots' lengths
\* and uses every letter once is returned exactly once, as an unordered collection.
C2_EveryCombinationOnce ==
    pc = "done" => \A a \in Assignments : TimesReturned(a) = 1

\* Lemma: C2 restricted to assignments that use no word twice.
EveryDistinctCombinationOnce ==
    pc = "done" =>
        \A a \in Assignments :
            (\A i, j \in 1..Len(a) : i # j => a[i] # a[j]) => TimesReturned(a) = 1

\* C3: every returned tuple has len(lengths) words and the word at position i has
\* lengths[i] characters, lengths being the list as the caller passed it.
C3_PositionwiseShape ==
    pc = "done" =>
        \A j \in 1..Len(results) :
            /\ Len(results[j]) = Len(lengths)
            /\ \A i \in 1..Len(lengths) : Len(results[j][i]) = lengths[i]

\* Lemma: C3 with the lengths taken in ascending order.
AscendingShape ==
    pc = "done" =>
        \A j \in 1..Len(results) :
            /\ Len(results[j]) = Len(lengths)
            /\ \A i \in 1..Len(lengths) : Len(results[j][i]) = Sorted(lengths)[i]

\* C4: the letters of the words of every returned tuple are, as a multiset, exactly
\* the input letters.
C4_Coverage ==
    \A j \in 1..Len(results) : LettersOf(results[j]) = LetterBag(letters)

C4_Witness ==
    pc = "done" /\ Len(lengths) = 2 /\ results # <<>> /\ "B" \in Range(letters)

\* C5: no two entries of the returned list are equal as unordered collections.
C5_Uniqueness ==
    \A j, k \in 1..Len(results) :
        j # k => AsCollection(results[j]) # AsCollection(results[k])

C5_Witness ==
    /\ pc = "done"
    /\ Len(lengths) = 2 /\ lengths[1] = lengths[2]
    /\ Len(results) = 1 /\ results[1][1] # results[1][2]

\* C6: with a single slot the result is the list of anagram(letters), each word
\* wrapped as a 1-tuple, in the same order.
C6_SingleSlotIsAnagram ==
    (pc = "done" /\ Len(lengths) = 1) =>
        LET found == anagram(dict_file, letters)
        IN  results = [i \in 1..Len(found) |-> <<found[i]>>]

C6_Witness ==
    pc = "done" /\ Len(lengths) = 1 /\ Len(results) = 2

\* C7: in every frame the remaining pool is the full pool minus the letters of the
\* words chosen below it, it is a multiset (no count below 1 is kept), and chosen
\* holds exactly slot_idx words.
C7_PoolInvariant ==
    stack # <<>> =>
        /\ Len(chosen) = Top.slot_idx
        /\ \A k \in 1..Len(stack) :
              /\ stack[k].slot_idx = k - 1
              /\ IsABag(stack[k].remaining)
              /\ stack[k].remaining (+) LettersOf(SubSeq(chosen, 1, k - 1)) = pool

C7_Witness ==
    pc = "search" /\ Len(stack) = 3 /\ results # <<>> /\ stack[2].idx > 0

\* C8: between adjacent slots of equal length the chosen candidate index strictly
\* increases, in the frames and in the returned tuples; a slot whose length differs
\* from the one before it is searched from index 0.
C8_DedupCursor ==
    /\ \A k \in 1..(Len(stack) - 1) :
          IF NextSameLength(k - 1, sorted_lengths)
          THEN /\ stack[k + 1].min_idx > stack[k].idx
               /\ stack[k + 1].idx > stack[k].idx
          ELSE /\ stack[k + 1].min_idx = 0
               /\ stack[k + 1].idx >= 0
    /\ \A j \in 1..Len(results) :
          \A i \in 1..(Len(results[j]) - 1) :
              sorted_lengths[i] = sorted_lengths[i + 1] =>
                  IndexOf(results[j][i + 1]) > IndexOf(results[j][i])

C8_Witness ==
    /\ pc = "search" /\ Len(stack) = 3
    /\ sorted_lengths[1] = sorted_lengths[2]
    /\ stack[1].idx = 0 /\ stack[2].idx = 1

\* C9: a search that was entered ends with a result list, the number of nested frames
\* never exceeds the number of slots plus one, and a required length without any
\* candidate gives the empty result.
C9_SearchEnds ==
    /\ [](Len(stack) <= Len(lengths) + 1)
    /\ [](pc = "done" =>
            ((\E n \in Range(lengths) : words_by_length[n] = <<>>) => results = <<>>))
    /\ (pc = "search") ~> (pc = "done")

C9_Witness ==
    /\ pc = "done" /\ results = <<>>
    /\ \E n \in Range(lengths) : words_by_length[n] = <<>>
    /\ \E n \in Range(lengths) : words_by_length[n] # <<>>

\* C10: every enumeration order of the same de-duplicated words gives the same set
\* of solutions, each taken as an unordered collection.
C10_OrderIndependent ==
    pc = "done" =>
        \A words \in Reorderings(load_words(dict_file)) :
            Collections(multianagram(words, letters, lengths)) = Collections(results)

C10_Witness ==
    /\ pc = "done" /\ results # <<>>
    /\ \E words \in Reorderings(load_words(dict_file)) :
          multianagram(words, letters, lengths) # results

====
